---- MODULE Spec2Model ----
(***************************************************************************)
(* The EURES crawler core of src/main.py: the two-file credential store,   *)
(* the credential refresh on HTTP 403, the paginated crawl of              *)
(* handle_pagination and the INSERT OR REPLACE upsert into the jobs table. *)
(*                                                                         *)
(* Python strings are sequences of one-character strings; a literal that   *)
(* the program never looks inside (a cookie name, the JSON frame of the    *)
(* cookie file) is one element of the sequence.                            *)
(***************************************************************************)
EXTENDS Integers, Sequences, FiniteSets, TLC

\* ------------------------------------------------------------------ bounds
MaxAcq == 2      \* acquisitions (browser sessions) one run may perform
MaxJobs == 2     \* listings in one search response
MaxPages == 2    \* pages the first response may announce
MaxLen == 2      \* length of the strings the credential store is tried on
MaxUpserts == 3  \* upserts the jobs table is tried on
MaxLog == 2      \* entries of the performance logs the extraction is tried on
MaxRuns == 2     \* runs of main() in a row
MaxTopN == 2     \* config["top_n_matches"] the scoring stage is tried with
MaxScore == 2    \* match scores the matched jobs are tried with

PageSize == 50   \* "resultsPerPage": 50

\* ------------------------------------------------------------ Python values
None == <<"<None>">>              \* Python's None, where a str is expected
Missing == <<"<no file>">>        \* Path.exists() is False
Unreadable == <<"<unreadable>">>  \* open()/read_text() raises
ParseError == <<"<ValueError>">>  \* json raises on the text

\* "s is None": an empty string passes
is_none(s) == s = None

Falsy(s) == s = None \/ s = <<>>  \* "not s" for s : str | None

Whitespace == {" "}
Chars == {"a", " ", "\"", "\\"}

RECURSIVE lstrip(_)
lstrip(s) == IF s # <<>> /\ Head(s) \in Whitespace THEN lstrip(Tail(s)) ELSE s

RECURSIVE rstrip(_)
rstrip(s) ==
    IF s # <<>> /\ s[Len(s)] \in Whitespace
    THEN rstrip(SubSeq(s, 1, Len(s) - 1))
    ELSE s

\* str.strip()
strip(s) == rstrip(lstrip(s))

\* ------------------------------------------------------------------- json
\* json.dump of a str: quotes and backslashes are escaped, the rest is kept.
RECURSIVE json_escape(_)
json_escape(s) ==
    IF s = <<>> THEN <<>>
    ELSE (IF Head(s) \in {"\"", "\\"} THEN <<"\\", Head(s)>> ELSE <<Head(s)>>)
         \o json_escape(Tail(s))

\* json.load of the inside of a string literal: ParseError on a bare quote, on
\* a backslash that escapes nothing, or on one that escapes an ordinary letter.
RECURSIVE json_unescape(_)
json_unescape(e) ==
    IF e = <<>> THEN <<>>
    ELSE IF Head(e) = "\"" THEN ParseError
    ELSE IF Head(e) = "\\"
         THEN IF Len(e) >= 2 /\ e[2] \in {"\"", "\\"}
              THEN LET rest == json_unescape(Tail(Tail(e)))
                   IN  IF rest = ParseError THEN ParseError ELSE <<e[2]>> \o rest
              ELSE ParseError
    ELSE LET rest == json_unescape(Tail(e))
         IN  IF rest = ParseError THEN ParseError ELSE <<Head(e)>> \o rest

ObjOpen == "{\"Cookie\": \""     \* text before the value in cookiefile.json
ObjClose == "\"}"                \* text after it
EmptyObj == "{}"                 \* a JSON object without the "Cookie" key

\* json.dump({"Cookie": v}, f, indent=2): the text written to the file
json_dump_Cookie(v) == <<ObjOpen>> \o json_escape(v) \o <<ObjClose>>

\* json.load(f).get("Cookie") on the text of the file
json_load_get_Cookie(text) ==
    IF text = <<EmptyObj>> THEN None
    ELSE IF Len(text) >= 2 /\ text[1] = ObjOpen /\ text[Len(text)] = ObjClose
         THEN json_unescape(SubSeq(text, 2, Len(text) - 1))
         ELSE ParseError

\* str(x): None becomes the text "None"
str_of(x) == x

\* json.dumps(x) for the detail document x (None serializes to null)
json_dumps(x) == IF x = "None" THEN "null" ELSE x

\* --------------------------------------------------------- credential store
SessionName == "EURES_JVSE_SESSIONID="
XsrfSeparator == "; XSRF-TOKEN="

\* extract_cookies_from_logs's first result: f"EURES_JVSE_SESSIONID={session_id}"
cookie_header_of(session_id) == <<SessionName>> \o session_id

\* save_cookie: the text of COOKIE_FILE afterwards
save_cookie(cookie_value, token) ==
    json_dump_Cookie(cookie_value \o <<XsrfSeparator>> \o token)

\* save_xsrf_token: the text of XSRF_FILE afterwards
save_xsrf_token(token) == strip(token)

\* load_stored_cookie() on a file holding `file`
load_stored_cookie_of(file) ==
    IF file = Missing THEN None
    ELSE IF file = Unreadable THEN None
    ELSE LET v == json_load_get_Cookie(file)
         IN  IF v = ParseError THEN None ELSE v

\* load_xsrf_token() on a file holding `file`
load_xsrf_token_of(file) ==
    IF file = Missing THEN None
    ELSE IF file = Unreadable THEN None
    ELSE strip(file)

\* ------------------------------------------------- extract_cookies_from_logs
XsrfName == "XSRF-TOKEN="
Semicolon == ";"
Newline == "\n"
PathAttr == " Path=/"
Values == {"a", "b"}              \* the characters of a cookie value

\* set_cookie.split("\n"): the pieces between the newlines
RECURSIVE split_lines(_, _)
split_lines(done, rest) ==
    IF rest = <<>> THEN <<done>>
    ELSE IF Head(rest) = Newline
         THEN <<done>> \o split_lines(<<>>, Tail(rest))
         ELSE split_lines(Append(done, Head(rest)), Tail(rest))

\* name in c
contains(c, name) == \E i \in 1..Len(c) : c[i] = name

\* [^;]+ from position i of c: the longest run without a semicolon
RECURSIVE run_from(_, _)
run_from(c, i) ==
    IF i > Len(c) \/ c[i] = Semicolon THEN <<>>
    ELSE <<c[i]>> \o run_from(c, i + 1)

\* the places of c where name is followed by at least one other character
matches(c, name) ==
    {i \in 1..Len(c) : c[i] = name /\ run_from(c, i + 1) # <<>>}

\* re.search(name + "([^;]+)", c).group(1), where there is a match
search_group(c, name) ==
    LET first == CHOOSE i \in matches(c, name) : \A j \in matches(c, name) : i <= j
    IN  run_from(c, first + 1)

\* the two locals of extract_cookies_from_logs, and whether the entry's try
\* block has raised
Found(session_id, token, raised) ==
    [session_id |-> session_id, xsrf_token |-> token, raised |-> raised]

\* line 101, "if session_id and xsrf_token"
both_found(f) == ~f.raised /\ ~Falsy(f.session_id) /\ ~Falsy(f.xsrf_token)

\* lines 96-99 for one cookie c: each name that occurs in c assigns its local;
\* .group on a failed search raises, which leaves the assignments made so far
one_cookie(c, f) ==
    LET s == IF ~contains(c, SessionName) THEN f
             ELSE IF matches(c, SessionName) = {}
                  THEN [f EXCEPT !.raised = TRUE]
                  ELSE [f EXCEPT !.session_id = search_group(c, SessionName)]
    IN  IF s.raised \/ ~contains(c, XsrfName) THEN s
        ELSE IF matches(c, XsrfName) = {}
             THEN [s EXCEPT !.raised = TRUE]
             ELSE [s EXCEPT !.xsrf_token = search_group(c, XsrfName)]

\* line 95, "for c in cookies"
RECURSIVE for_cookies(_, _)
for_cookies(cookies, f) ==
    IF cookies = <<>> \/ f.raised THEN f
    ELSE for_cookies(Tail(cookies), one_cookie(Head(cookies), f))

\* an entry of driver.get_log("performance"): what json.loads makes of its
\* message ("malformed" when it raises, "other" for another method) and the
\* Set-Cookie header of the response, <<>> when there is none
Entry(message, set_cookie) == [message |-> message, set_cookie |-> set_cookie]

\* lines 83-104, "for entry in logs"
RECURSIVE for_entries(_, _)
for_entries(logs, f) ==
    IF logs = <<>> THEN f
    ELSE LET entry == Head(logs)
         IN  IF entry.message # "extra" \/ entry.set_cookie = <<>>
             THEN for_entries(Tail(logs), f)
             ELSE LET g == for_cookies(split_lines(<<>>, entry.set_cookie),
                                       [f EXCEPT !.raised = FALSE])
                  IN  IF both_found(g) THEN g
                      ELSE for_entries(Tail(logs), [g EXCEPT !.raised = FALSE])

\* raise RuntimeError("Required cookies not found")
Raised == <<<<"<RuntimeError>">>, <<"<RuntimeError>">>>>

\* "or" read as "and": a credential with one part missing is returned
either_missing_and(f) == Falsy(f.session_id) /\ Falsy(f.xsrf_token)

\* line 106, "if not session_id or not xsrf_token"
either_missing(f) == Falsy(f.session_id) \/ Falsy(f.xsrf_token)

\* extract_cookies_from_logs(logs)
extract_cookies_from_logs(logs) ==
    LET f == for_entries(logs, Found(None, None, FALSE))
    IN  IF either_missing(f) THEN Raised
        ELSE <<cookie_header_of(f.session_id), f.xsrf_token>>

\* cookiefile.json when it holds no cookie: no file, a file that cannot be
\* read, text that is not JSON, an object without "Cookie", an empty value
AbsentCookieFiles ==
    {Missing, Unreadable, <<"a">>, <<EmptyObj>>, <<ObjOpen, ObjClose>>}

\* xsrf_token.txt when it holds no token: no file, a file that cannot be
\* read, an empty file, white space only
AbsentXsrfFiles == {Missing, Unreadable, <<>>, <<" ">>}

\* -------------------------------------------------------------------- state
VARIABLES
    pc,            \* where main() stands
    COOKIE_FILE,   \* text of cookiefile.json
    XSRF_FILE,     \* text of xsrf_token.txt
    cookie,        \* main's / handle_pagination's cookie
    xsrf_token,    \* main's / handle_pagination's xsrf_token
    obtained,      \* what obtain_cookies_via_selenium last returned
    call,          \* the make_api_request / get_job_details call in progress
    page,          \* handle_pagination: page
    total,         \* handle_pagination: total
    total_pages,   \* handle_pagination: total_pages
    jobs,          \* handle_pagination: jobs
    idx,           \* position of `job` in jobs
    details,       \* what get_job_details returned for `job`
    table,         \* the jobs table as the open connection sees it
    committed,     \* the jobs table on disk
    acquisitions,  \* history: calls of obtain_cookies_via_selenium, by caller
    searches,      \* history: search requests sent
    visited,       \* history: pages the for loop has entered
    commits,       \* history: conn.commit() calls of handle_pagination
    log,           \* history: what happened in the current page
    revoked,       \* history: the cookie that got the first 403 (None once
                   \* the server has left the scenario)
    scenario,      \* history: the server answered as in "invalidated once"
    browser,       \* Chrome instances started and not yet quit
    logs,          \* obtain_cookies_via_selenium: logs
    upstream,      \* what the search and detail endpoints hold, where fixed
    runs,          \* history: how the earlier runs of main() ended
    table0,        \* history, kept where several runs follow one another: the
                   \* jobs table before the first run ({} where not kept)
    job_matched,   \* scoring stage: the rows of table job_matched
    jobs_data,     \* scoring stage: the ids of the rows of table jobs_data
    top_n_matches, \* scoring stage: config["top_n_matches"]
    offset_matched,  \* rank_jobs.main: offset_matched
    paginated_jobs,  \* rank_jobs.main: paginated_jobs
    reranked_jobs    \* rank_jobs.main: what "for job in reranked_jobs" has
                     \* still to insert

\* what only the acquisition changes, what only the scoring stage changes,
\* and what no step of a crawl changes
browserVars == <<browser, logs>>
rankVars == <<job_matched, jobs_data, top_n_matches, offset_matched,
              paginated_jobs, reranked_jobs>>
runVars == <<upstream, runs, table0, rankVars>>

vars == <<pc, COOKIE_FILE, XSRF_FILE, cookie, xsrf_token, obtained, call, page,
          total, total_pages, jobs, idx, details, table, committed,
          acquisitions, searches, visited, commits, log, revoked,
          scenario, browser, logs, upstream, runs, table0, job_matched,
          jobs_data, top_n_matches, offset_matched, paginated_jobs,
          reranked_jobs>>

\* the scoring stage is not running and has left nothing
NoRanking ==
    /\ job_matched = {}
    /\ jobs_data = {}
    /\ top_n_matches = 0
    /\ offset_matched = 0
    /\ paginated_jobs = <<>>
    /\ reranked_jobs = <<>>

\* ------------------------------------------------------- upstream and data
Ids == {"j1", "j2"}
Titles == {"t1"}        \* what the upstream serves now
OldTitles == {"t0"}     \* what a previous run stored
Docs == {"d1"}
OldDocs == {"d0"}

\* an element of response["jvs"]: the id and the fields copied from the page
Listings == [id : Ids, title : Titles]

\* the lists of at most n listings
RECURSIVE ListsUpTo(_)
ListsUpTo(n) ==
    IF n = 0 THEN {<<>>}
    ELSE LET shorter == ListsUpTo(n - 1)
         IN  shorter \cup {Append(l, j) : l \in {s \in shorter : Len(s) = n - 1},
                                          j \in Listings}

JobLists == ListsUpTo(MaxJobs)
\* the totals the first response may announce: none, and those on either side
\* of a page boundary, up to MaxPages pages
Totals ==
    {0} \cup {t \in PageSize..((MaxPages - 1) * PageSize + 1) : t % PageSize \in {0, 1}}

\* An HTTP response: the status, whether the body parses as JSON, whether the
\* parsed object has the keys of a result, and the values under them.
Resp(status, json, keys, numberRecords, jvs, doc) ==
    [status |-> status, json |-> json, keys |-> keys,
     numberRecords |-> numberRecords, jvs |-> jvs, doc |-> doc]

Denied == Resp(403, TRUE, FALSE, 0, <<>>, "None")

SearchAnswers ==
    {Resp(200, TRUE, TRUE, n, l, "None") : n \in Totals, l \in JobLists}
    \cup {Resp(200, FALSE, FALSE, 0, <<>>, "None"),
          Resp(500, TRUE, FALSE, 0, <<>>, "None"),
          Resp(500, FALSE, FALSE, 0, <<>>, "None")}

DetailAnswers ==
    {Resp(200, TRUE, TRUE, 0, <<>>, d) : d \in Docs}
    \cup {Resp(200, FALSE, FALSE, 0, <<>>, "None"),
          Resp(500, FALSE, FALSE, 0, <<>>, "None")}

\* the document the detail endpoint serves
TheDoc == CHOOSE d \in Docs : TRUE

\* a body that is not JSON, under status 200
Garbled == Resp(200, FALSE, FALSE, 0, <<>>, "None")

\* response.ok
ok(response) == response.status < 400

\* response.get("numberRecords", 0)
get_numberRecords(response) == IF response.keys THEN response.numberRecords ELSE 0

\* response.get("jvs", [])
get_jvs(response) == IF response.keys THEN response.jvs ELSE <<>>

\* total // 50 + 1: one page too many when total is a multiple of 50
total_pages_plus_one(t) == (t \div 50) + 1

\* total_pages = (total + 49) // 50
total_pages_of(t) == (t + 49) \div 50

\* ---------------------------------------------------------------- the table
Rows == [id : Ids, title : Titles \cup OldTitles,
         details : {json_dumps(d) : d \in Docs \cup OldDocs \cup {"None"}}]

\* job_data of lines 203-219
job_data(job, detail) ==
    [id |-> job.id, title |-> job.title, details |-> json_dumps(detail)]

\* DELETE FROM jobs, then INSERT: the other rows are lost
InsertAfterDelete(t, row) == {row}

\* INSERT OR IGNORE: a row whose id is present is left as it is
InsertOrIgnore(t, row) == IF \E r \in t : r.id = row.id THEN t ELSE t \cup {row}

\* INSERT OR REPLACE INTO jobs: id is the PRIMARY KEY, so the row with the
\* same id, if any, is deleted and the new row inserted
InsertOrReplace(t, row) == {r \in t : r.id # row.id} \cup {row}

\* tables a previous run may have left
InitTables == {{}, {[id |-> "j1", title |-> "t0", details |-> "d0"]}}

\* the value the server issues in the k-th acquisition of a run
Digit == <<"1", "2", "3", "4", "5", "6">>

\* a Set-Cookie line of the session-id cookie / of the XSRF cookie
SessionCookie(v) == <<SessionName>> \o v \o <<Semicolon, PathAttr>>
XsrfCookie(v) == <<XsrfName>> \o v \o <<Semicolon, PathAttr>>

\* what driver.get_log("performance") may hold in the k-th acquisition: the
\* two cookies in two responses, or the session-id cookie only
PerformanceLogs(k) ==
    {<<Entry("extra", SessionCookie(<<Digit[k]>>)),
       Entry("extra", XsrfCookie(<<Digit[k]>>))>>,
     <<Entry("extra", SessionCookie(<<Digit[k]>>))>>}

\* the upstream of a crawl whose answers are not fixed in advance
NoUpstream ==
    [known |-> FALSE, total |-> 0, pages |-> [p \in 1..MaxPages |-> <<>>],
     absent |-> {}]

\* ---------------------------------------------------------------- the calls
Callers == {"main", "refresh"}    \* main's acquisition, those after a 403

NoCall == [fn |-> "none", ret |-> 0, cookie |-> None, xsrf_token |-> None,
           resps |-> <<>>, acq |-> 0, returned |-> FALSE]

\* a call of fn, to return to line ret, with the caller's credential
NewCall(fn, ret) ==
    [fn |-> fn, ret |-> ret, cookie |-> cookie, xsrf_token |-> xsrf_token,
     resps |-> <<>>, acq |-> 0, returned |-> FALSE]

\* the recursive call made without "return": the outer frame goes on to
\* build its result from its own response, the 403
FirstResponse(resps) == resps[1]

\* "return make_api_request(...)" / "return get_job_details(...)": the
\* outermost frame returns what the innermost returned, which is built from
\* the last response received
ReturnedResponse(resps) == resps[Len(resps)]

StoredId == <<"0">>      \* the session id a previous run left in the store
StoredToken == <<"0">>

Total(f) == f["main"] + f["refresh"]

\* an entry of the history log: what was done, for which page or position in
\* jobs, and for which listing id
Event(ev, n, id) == [ev |-> ev, n |-> n, id |-> id]

\* range(1, total_pages): the last page is left out
in_range_short(p, n) == p < n

\* "for page in range(1, total_pages + 1)": is p still in the range
in_range(p, n) == p <= n

\* the loop stops one listing early
in_jobs_short(i, l) == i < Len(l)

\* "for job in jobs": is there an i-th listing
in_jobs(i, l) == i <= Len(l)

\* what one answer tells about the "invalidated once" server: before the first
\* 403 every answer is a good 200 or the 403 that invalidates; afterwards the
\* invalidated cookie gets 403 and every other cookie a good 200
Observe(c, r) ==
    /\ scenario' = (scenario /\
                    IF revoked = None
                    THEN r.status = 403 \/ (r.status = 200 /\ r.json)
                    ELSE IF c = revoked THEN r.status = 403
                         ELSE r.status = 200 /\ r.json)
    /\ revoked' = IF ~scenario' THEN None
                  ELSE IF revoked = None /\ r.status = 403 THEN c
                  ELSE revoked

\* the server may answer 403 while the run may still acquire
MayDeny == IF Total(acquisitions) < MaxAcq THEN {Denied} ELSE {}

\* what the search endpoint may answer to a request for page p: anything where
\* the upstream is not fixed; otherwise the fixed total and the listings of
\* page p, or a garbled body
SearchServer(p) ==
    IF upstream.known
    THEN {Resp(200, TRUE, TRUE, upstream.total, upstream.pages[p], "None"),
          Garbled}
    ELSE SearchAnswers \cup MayDeny

\* what the detail endpoint may answer to a request for id
DetailServer(id) ==
    IF upstream.known
    THEN {IF id \in upstream.absent
          THEN Resp(500, FALSE, FALSE, 0, <<>>, "None")
          ELSE Resp(200, TRUE, TRUE, 0, <<>>, TheDoc),
          Garbled}
    ELSE DetailAnswers \cup MayDeny

\* ------------------------------------------------------------------ actions
Init ==
    /\ pc = "main"
    /\ COOKIE_FILE \in AbsentCookieFiles
                        \cup {save_cookie(cookie_header_of(StoredId), StoredToken)}
    /\ XSRF_FILE \in AbsentXsrfFiles \cup {save_xsrf_token(StoredToken)}
    /\ cookie = None
    /\ xsrf_token = None
    /\ obtained = <<None, None>>
    /\ call = NoCall
    /\ page = 1
    /\ total = 0
    /\ total_pages = 0
    /\ jobs = <<>>
    /\ idx = 1
    /\ details = "None"
    /\ table \in InitTables
    /\ committed = table
    /\ acquisitions = [c \in Callers |-> 0]
    /\ searches = 0
    /\ visited = <<>>
    /\ commits = 0
    /\ log = <<>>
    /\ revoked = None
    /\ scenario = TRUE
    /\ browser = 0
    /\ logs = <<>>
    /\ upstream = NoUpstream
    /\ runs = <<>>
    /\ table0 = {}
    /\ NoRanking

\* main, lines 238-244: open the database, load the two files, acquire if
\* either value is missing or empty
Main ==
    /\ pc = "main"
    /\ cookie' = load_stored_cookie_of(COOKIE_FILE)
    /\ xsrf_token' = load_xsrf_token_of(XSRF_FILE)
    /\ pc' = IF Falsy(cookie') \/ Falsy(xsrf_token') THEN "reload" ELSE "paginate"
    /\ UNCHANGED <<browserVars, runVars, COOKIE_FILE, XSRF_FILE, obtained, call, page, total,
                   total_pages, jobs, idx, details, table, committed,
                   acquisitions, searches, visited, commits, log, revoked, scenario>>

\* who called reload_cookie
Caller == IF call.fn = "none" THEN "main" ELSE "refresh"

\* obtain_cookies_via_selenium, lines 112-120: start Chrome, load the search
\* page, wait, and read the performance log
StartBrowser ==
    /\ pc = "reload"
    /\ browser' = browser + 1
    /\ logs' \in PerformanceLogs(Total(acquisitions) + 1)
    /\ pc' = "browse"
    /\ UNCHANGED <<runVars, COOKIE_FILE, XSRF_FILE, cookie, xsrf_token,
                   obtained, call, page, total, total_pages, jobs, idx,
                   details, table, committed, acquisitions, searches, visited,
                   commits, log, revoked, scenario>>

\* lines 121-129 when extract_cookies_from_logs returns: the finally clause
\* quits Chrome, reload_cookie saves the new credential to both files and
\* returns it to its caller
ReloadCookie ==
    /\ pc = "browse"
    /\ extract_cookies_from_logs(logs) # Raised
    /\ LET cookie_header == extract_cookies_from_logs(logs)[1]
           token == extract_cookies_from_logs(logs)[2]
       IN  /\ obtained' = <<cookie_header, token>>
           /\ COOKIE_FILE' = save_cookie(cookie_header, token)
           /\ XSRF_FILE' = save_xsrf_token(token)
           /\ acquisitions' = [acquisitions EXCEPT ![Caller] = @ + 1]
           /\ IF Caller = "main"
              THEN /\ cookie' = cookie_header
                   /\ xsrf_token' = token
                   /\ pc' = "paginate"
                   /\ UNCHANGED call
              ELSE /\ call' = [call EXCEPT !.cookie = cookie_header,
                                           !.xsrf_token = token,
                                           !.acq = @ + 1]
                   /\ pc' = "request"
                   /\ UNCHANGED <<cookie, xsrf_token>>
    /\ browser' = browser - 1
    /\ logs' = <<>>
    /\ UNCHANGED <<runVars, page, total, total_pages, jobs, idx, details, table,
                   committed, searches, visited, commits, log, revoked, scenario>>

\* the exception is caught around reload_cookie and the caller goes on with
\* the credential it had
ReloadFailsSwallowed ==
    /\ pc = "browse"
    /\ extract_cookies_from_logs(logs) = Raised
    /\ acquisitions' = [acquisitions EXCEPT ![Caller] = @ + 1]
    /\ browser' = browser - 1
    /\ logs' = <<>>
    /\ pc' = IF Caller = "main" THEN "paginate" ELSE "request"
    /\ UNCHANGED <<runVars, COOKIE_FILE, XSRF_FILE, cookie, xsrf_token,
                   obtained, call, page, total, total_pages, jobs, idx,
                   details, table, committed, searches, visited, commits, log,
                   revoked, scenario>>

\* driver.quit() after the return instead of in a finally clause: it is
\* skipped when the extraction raises
ReloadFailsNoQuit ==
    /\ pc = "browse"
    /\ extract_cookies_from_logs(logs) = Raised
    /\ acquisitions' = [acquisitions EXCEPT ![Caller] = @ + 1]
    /\ logs' = <<>>
    /\ pc' = "failed"
    /\ UNCHANGED <<runVars, browser, COOKIE_FILE, XSRF_FILE, cookie,
                   xsrf_token, obtained, call, page, total, total_pages, jobs,
                   idx, details, table, committed, searches, visited, commits,
                   log, revoked, scenario>>

\* reload_cookie discards the stored credential when the acquisition fails:
\* both files are removed before the exception goes on
ReloadFailsStoreCleared ==
    /\ pc = "browse"
    /\ extract_cookies_from_logs(logs) = Raised
    /\ acquisitions' = [acquisitions EXCEPT ![Caller] = @ + 1]
    /\ COOKIE_FILE' = Missing
    /\ XSRF_FILE' = Missing
    /\ browser' = browser - 1
    /\ logs' = <<>>
    /\ pc' = "failed"
    /\ UNCHANGED <<runVars, cookie, xsrf_token, obtained, call, page, total,
                   total_pages, jobs, idx, details, table, committed,
                   searches, visited, commits, log, revoked, scenario>>

\* lines 121-123 when extract_cookies_from_logs raises (line 107): the finally
\* clause quits Chrome, nothing is saved, and the exception passes through
\* reload_cookie and every caller up to main: the run ends
ReloadFails ==
    /\ pc = "browse"
    /\ extract_cookies_from_logs(logs) = Raised
    /\ acquisitions' = [acquisitions EXCEPT ![Caller] = @ + 1]
    /\ browser' = browser - 1
    /\ logs' = <<>>
    /\ pc' = "failed"
    /\ UNCHANGED <<runVars, COOKIE_FILE, XSRF_FILE, cookie, xsrf_token,
                   obtained, call, page, total, total_pages, jobs, idx,
                   details, table, committed, searches, visited, commits, log,
                   revoked, scenario>>

\* handle_pagination, lines 187-190: the first call of make_api_request
HandlePagination ==
    /\ pc = "paginate"
    /\ page' = 1
    /\ call' = NewCall("make_api_request", 190)
    /\ pc' = "request"
    /\ UNCHANGED <<browserVars, runVars, COOKIE_FILE, XSRF_FILE, cookie, xsrf_token, obtained, total,
                   total_pages, jobs, idx, details, table, committed,
                   acquisitions, searches, visited, commits, log, revoked, scenario>>

\* make_api_request, lines 158-165: one POST and what follows its answer. A
\* 403 goes to reload_cookie and the call is made again; any other answer is
\* parsed and returned with the call's credential to handle_pagination, which
\* computes total_pages (lines 190-193) or reads the listings (lines 199-200).
MakeApiRequest ==
    /\ pc = "request"
    /\ call.fn = "make_api_request"
    /\ \E r \in SearchServer(page) :
         LET resps == Append(call.resps, r)
             response == ReturnedResponse(resps)
         IN
         /\ searches' = searches + 1
         /\ log' = Append(log, Event("search", page, "-"))
         /\ Observe(call.cookie, r)
         /\ IF r.status = 403
            THEN /\ call' = [call EXCEPT !.resps = resps]
                 /\ pc' = "reload"
                 /\ UNCHANGED <<browserVars, runVars, cookie, xsrf_token, total, total_pages, jobs, idx>>
            ELSE IF ~r.json
            THEN /\ call' = [call EXCEPT !.resps = resps]
                 /\ pc' = "failed"
                 /\ UNCHANGED <<browserVars, runVars, cookie, xsrf_token, total, total_pages, jobs, idx>>
            ELSE /\ call' = [call EXCEPT !.resps = resps, !.returned = TRUE]
                 /\ cookie' = call.cookie
                 /\ xsrf_token' = call.xsrf_token
                 /\ IF call.ret = 190
                    THEN /\ total' = get_numberRecords(response)
                         /\ total_pages' = total_pages_of(total')
                         /\ pc' = "for_page"
                         /\ UNCHANGED <<browserVars, runVars, jobs, idx>>
                    ELSE /\ jobs' = get_jvs(response)
                         /\ idx' = 1
                         /\ pc' = "for_job"
                         /\ UNCHANGED <<browserVars, runVars, total, total_pages>>
    /\ UNCHANGED <<browserVars, runVars, COOKIE_FILE, XSRF_FILE, obtained, page, details, table,
                   committed, acquisitions, visited, commits>>

\* line 197, "for page in range(1, total_pages + 1)": enter the next page and
\* call make_api_request for it (line 199), or leave the loop and return to
\* main, which closes the connection. The previous page's jobs is not read
\* again before line 200 assigns it: the model forgets the list on entry.
ForPage ==
    /\ pc = "for_page"
    /\ IF in_range(page, total_pages)
       THEN /\ visited' = Append(visited, page)
            /\ call' = NewCall("make_api_request", 199)
            /\ log' = <<>>
            /\ jobs' = <<>>
            /\ idx' = 1
            /\ pc' = "request"
       ELSE /\ pc' = "done"
            /\ call' = NoCall
            /\ UNCHANGED <<browserVars, runVars, visited, log, jobs, idx>>
    /\ UNCHANGED <<browserVars, runVars, COOKIE_FILE, XSRF_FILE, cookie, xsrf_token, obtained, page,
                   total, total_pages, details, table, committed,
                   acquisitions, searches, commits, revoked,
                   scenario>>

\* line 202, "for job in jobs": call get_job_details for the next listing
\* (line 218), or go on to the commit
ForJob ==
    /\ pc = "for_job"
    /\ IF in_jobs(idx, jobs)
       THEN /\ call' = NewCall("get_job_details", 218)
            /\ pc' = "request"
       ELSE /\ pc' = "commit"
            /\ call' = NoCall
    /\ UNCHANGED <<browserVars, runVars, COOKIE_FILE, XSRF_FILE, cookie, xsrf_token, obtained, page,
                   total, total_pages, jobs, idx, details, table, committed,
                   acquisitions, searches, visited, commits, log, revoked, scenario>>

\* get_job_details, lines 177-183: one GET and what follows its answer. A 403
\* goes to reload_cookie and the call is made again; otherwise the document,
\* or None when the status is not ok, is returned. Only the document is
\* returned: the call's credential is dropped with its frame.
GetJobDetails ==
    /\ pc = "request"
    /\ call.fn = "get_job_details"
    /\ \E r \in DetailServer(jobs[idx].id) :
         LET resps == Append(call.resps, r)
             response == ReturnedResponse(resps)
         IN
         /\ log' = Append(log, Event("detail", idx, jobs[idx].id))
         /\ Observe(call.cookie, r)
         /\ IF r.status = 403
            THEN /\ call' = [call EXCEPT !.resps = resps]
                 /\ pc' = "reload"
                 /\ UNCHANGED details
            ELSE IF ok(r) /\ ~r.json
            THEN /\ call' = [call EXCEPT !.resps = resps]
                 /\ pc' = "failed"
                 /\ UNCHANGED details
            ELSE /\ call' = [call EXCEPT !.resps = resps, !.returned = TRUE]
                 /\ details' = IF ok(response) THEN response.doc ELSE "None"
                 /\ pc' = "upsert"
    /\ UNCHANGED <<browserVars, runVars, COOKIE_FILE, XSRF_FILE, cookie, xsrf_token, obtained, page,
                   total, total_pages, jobs, idx, table, committed,
                   acquisitions, searches, visited, commits>>

\* the connection is opened in autocommit mode (isolation_level=None): each
\* INSERT OR REPLACE is on disk as soon as it is executed
UpsertAutocommit ==
    /\ pc = "upsert"
    /\ table' = InsertOrReplace(table, job_data(jobs[idx], details))
    /\ committed' = table'
    /\ log' = Append(log, Event("upsert", idx, jobs[idx].id))
    /\ idx' = idx + 1
    /\ details' = "None"
    /\ call' = NoCall
    /\ pc' = "for_job"
    /\ UNCHANGED <<browserVars, runVars, COOKIE_FILE, XSRF_FILE, cookie, xsrf_token, obtained, page,
                   total, total_pages, jobs, acquisitions, searches,
                   visited, commits, revoked, scenario>>

\* lines 203-228: build job_data from the listing and the returned document
\* (a temporary of the dict display, gone afterwards) and INSERT OR REPLACE it
Upsert ==
    /\ pc = "upsert"
    /\ table' = InsertOrReplace(table, job_data(jobs[idx], details))
    /\ log' = Append(log, Event("upsert", idx, jobs[idx].id))
    /\ idx' = idx + 1
    /\ details' = "None"
    /\ call' = NoCall
    /\ pc' = "for_job"
    /\ UNCHANGED <<browserVars, runVars, COOKIE_FILE, XSRF_FILE, cookie, xsrf_token, obtained, page,
                   total, total_pages, jobs, committed, acquisitions, searches,
                   visited, commits, revoked, scenario>>

\* the page ends without conn.commit()
CommitForgotten ==
    /\ pc = "commit"
    /\ log' = Append(log, Event("commit", page, "-"))
    /\ pc' = "sleep"
    /\ UNCHANGED <<browserVars, runVars, COOKIE_FILE, XSRF_FILE, cookie, xsrf_token, obtained, call,
                   page, total, total_pages, jobs, idx, details, table,
                   committed, commits, acquisitions, searches, visited,
                   revoked, scenario>>

\* line 230: conn.commit()
Commit ==
    /\ pc = "commit"
    /\ committed' = table
    /\ commits' = commits + 1
    /\ log' = Append(log, Event("commit", page, "-"))
    /\ pc' = "sleep"
    /\ UNCHANGED <<browserVars, runVars, COOKIE_FILE, XSRF_FILE, cookie, xsrf_token, obtained, call,
                   page, total, total_pages, jobs, idx, details, table,
                   acquisitions, searches, visited, revoked,
                   scenario>>

\* the loop goes to the next page without time.sleep(1)
SleepSkipped ==
    /\ pc = "sleep"
    /\ page' = page + 1
    /\ pc' = "for_page"
    /\ UNCHANGED <<browserVars, runVars, COOKIE_FILE, XSRF_FILE, cookie, xsrf_token, obtained, call,
                   total, total_pages, jobs, idx, details, table, committed,
                   acquisitions, searches, visited, commits, log, revoked, scenario>>

\* lines 231-232: results.extend(jobs); time.sleep(1); then the next page
\* (results is written and never read by the crawl: it is left out)
Sleep ==
    /\ pc = "sleep"
    /\ log' = Append(log, Event("sleep", page, "-"))
    /\ page' = page + 1
    /\ pc' = "for_page"
    /\ UNCHANGED <<browserVars, runVars, COOKIE_FILE, XSRF_FILE, cookie, xsrf_token, obtained, call,
                   total, total_pages, jobs, idx, details, table, committed,
                   acquisitions, searches, visited, commits, revoked, scenario>>

Next ==
    \/ Main
    \/ StartBrowser
    \/ ReloadCookie
    \/ ReloadFails
    \/ HandlePagination
    \/ MakeApiRequest
    \/ ForPage
    \/ ForJob
    \/ GetJobDetails
    \/ Upsert
    \/ Commit
    \/ Sleep

Spec == Init /\ [][Next]_vars

\* ------------------------------------------- the credential store by itself
\* the strings of at most n characters
RECURSIVE StringsUpTo(_)
StringsUpTo(n) ==
    IF n = 0 THEN {<<>>}
    ELSE LET shorter == StringsUpTo(n - 1)
         IN  shorter \cup {Append(w, c) : w \in {v \in shorter : Len(v) = n - 1},
                                          c \in Chars}

Strings == StringsUpTo(MaxLen)

\* any credential in `obtained`, the store empty or holding a previous one
InitStore ==
    /\ pc = "store_save"
    /\ obtained \in Strings \X Strings
    /\ \/ COOKIE_FILE = Missing /\ XSRF_FILE = Missing
       \/ /\ COOKIE_FILE = save_cookie(cookie_header_of(StoredId), StoredToken)
          /\ XSRF_FILE = save_xsrf_token(StoredToken)
    /\ cookie = None
    /\ xsrf_token = None
    /\ call = NoCall
    /\ page = 1
    /\ total = 0
    /\ total_pages = 0
    /\ jobs = <<>>
    /\ idx = 1
    /\ details = "None"
    /\ table = {}
    /\ committed = {}
    /\ acquisitions = [c \in Callers |-> 0]
    /\ searches = 0
    /\ visited = <<>>
    /\ commits = 0
    /\ log = <<>>
    /\ revoked = None
    /\ scenario = TRUE
    /\ browser = 0
    /\ logs = <<>>
    /\ upstream = NoUpstream
    /\ runs = <<>>
    /\ table0 = table
    /\ NoRanking

\* reload_cookie, lines 127-128: save_cookie, then save_xsrf_token
StoreSave ==
    /\ pc = "store_save"
    /\ COOKIE_FILE' = save_cookie(obtained[1], obtained[2])
    /\ XSRF_FILE' = save_xsrf_token(obtained[2])
    /\ pc' = "store_load"
    /\ UNCHANGED <<browserVars, runVars, cookie, xsrf_token, obtained, call, page, total, total_pages,
                   jobs, idx, details, table, committed, acquisitions,
                   searches, visited, commits, log, revoked,
                   scenario>>

\* reload_cookie when the process ends after line 127 and before line 128:
\* cookiefile.json is written, xsrf_token.txt is as it was
StoreSaveInterrupted ==
    /\ pc = "store_save"
    /\ COOKIE_FILE' = save_cookie(obtained[1], obtained[2])
    /\ pc' = "store_crashed"
    /\ UNCHANGED <<browserVars, runVars, XSRF_FILE, cookie, xsrf_token,
                   obtained, call, page, total, total_pages, jobs, idx,
                   details, table, committed, acquisitions, searches, visited,
                   commits, log, revoked, scenario>>

\* main, lines 239-240, in the next run: load both files
StoreLoad ==
    /\ pc \in {"store_load", "store_crashed"}
    /\ cookie' = load_stored_cookie_of(COOKIE_FILE)
    /\ xsrf_token' = load_xsrf_token_of(XSRF_FILE)
    /\ pc' = IF pc = "store_load" THEN "store_done" ELSE "store_restarted"
    /\ UNCHANGED <<browserVars, runVars, COOKIE_FILE, XSRF_FILE, obtained, call, page, total,
                   total_pages, jobs, idx, details, table, committed,
                   acquisitions, searches, visited, commits, log, revoked, scenario>>

NextStore == StoreSave \/ StoreSaveInterrupted \/ StoreLoad

SpecStore == InitStore /\ [][NextStore]_vars

\* ------------------------------------------------- the jobs table by itself
\* a table a previous run left, and no upsert yet; here log holds the rows
\* upserted, in order
InitTable ==
    /\ pc = "table"
    /\ table \in InitTables
    /\ committed = table
    /\ log = <<>>
    /\ COOKIE_FILE = Missing
    /\ XSRF_FILE = Missing
    /\ cookie = None
    /\ xsrf_token = None
    /\ obtained = <<None, None>>
    /\ call = NoCall
    /\ page = 1
    /\ total = 0
    /\ total_pages = 0
    /\ jobs = <<>>
    /\ idx = 1
    /\ details = "None"
    /\ acquisitions = [c \in Callers |-> 0]
    /\ searches = 0
    /\ visited = <<>>
    /\ commits = 0
    /\ revoked = None
    /\ scenario = TRUE
    /\ browser = 0
    /\ logs = <<>>
    /\ upstream = NoUpstream
    /\ runs = <<>>
    /\ table0 = {}
    /\ NoRanking

\* lines 203-228 for any listing and any returned document
UpsertAny ==
    /\ pc = "table"
    /\ Len(log) < MaxUpserts
    /\ \E job \in Listings, d \in Docs \cup {"None"} :
         /\ table' = InsertOrReplace(table, job_data(job, d))
         /\ log' = Append(log, job_data(job, d))
    /\ UNCHANGED <<browserVars, runVars, pc, COOKIE_FILE, XSRF_FILE, cookie, xsrf_token, obtained,
                   call, page, total, total_pages, jobs, idx, details,
                   committed, acquisitions, searches, visited, commits,
                   revoked, scenario>>

NextTable == UpsertAny

SpecTable == InitTable /\ [][NextTable]_vars

\* ------------------------------------------------ the extraction by itself
\* the Set-Cookie lines tried: either cookie with a value, and the session-id
\* cookie without one
CookieLines ==
    {SessionCookie(<<v>>) : v \in Values}
    \cup {XsrfCookie(<<v>>) : v \in Values}
    \cup {<<SessionName, Semicolon>>}

\* the entries tried: a response with one Set-Cookie line or with two joined
\* by a newline, a response without the header, an entry of another method,
\* and an entry whose message does not parse
LogEntries ==
    {Entry("extra", c) : c \in CookieLines}
    \cup {Entry("extra", c \o <<Newline>> \o d) : c, d \in CookieLines}
    \cup {Entry("extra", <<>>), Entry("other", <<>>), Entry("malformed", <<>>)}

\* the logs of at most n entries
RECURSIVE LogsUpTo(_)
LogsUpTo(n) ==
    IF n = 0 THEN {<<>>}
    ELSE LET shorter == LogsUpTo(n - 1)
         IN  shorter \cup {Append(l, e) : l \in {s \in shorter : Len(s) = n - 1},
                                          e \in LogEntries}

InitExtract ==
    /\ pc = "extract"
    /\ logs \in LogsUpTo(MaxLog)
    /\ obtained = <<None, None>>
    /\ COOKIE_FILE = Missing
    /\ XSRF_FILE = Missing
    /\ cookie = None
    /\ xsrf_token = None
    /\ call = NoCall
    /\ page = 1
    /\ total = 0
    /\ total_pages = 0
    /\ jobs = <<>>
    /\ idx = 1
    /\ details = "None"
    /\ table = {}
    /\ committed = {}
    /\ acquisitions = [c \in Callers |-> 0]
    /\ searches = 0
    /\ visited = <<>>
    /\ commits = 0
    /\ log = <<>>
    /\ revoked = None
    /\ scenario = TRUE
    /\ browser = 0
    /\ upstream = NoUpstream
    /\ runs = <<>>
    /\ table0 = {}
    /\ NoRanking

\* line 121: extract_cookies_from_logs(logs)
Extract ==
    /\ pc = "extract"
    /\ obtained' = extract_cookies_from_logs(logs)
    /\ pc' = "extracted"
    /\ UNCHANGED <<runVars, browser, logs, COOKIE_FILE, XSRF_FILE, cookie,
                   xsrf_token, call, page, total, total_pages, jobs, idx,
                   details, table, committed, acquisitions, searches, visited,
                   commits, log, revoked, scenario>>

NextExtract == Extract

SpecExtract == InitExtract /\ [][NextExtract]_vars

\* ----------------------------------------------------- several runs in a row
\* the listings of a page of a fixed upstream: no id twice
PageLists ==
    {l \in JobLists : \A i, j \in 1..Len(l) : l[i].id = l[j].id => i = j}

\* the fixed upstreams: a total, the listings of each page the total spans,
\* and the ids whose detail request is answered 500
Upstreams ==
    {u \in [known : {TRUE}, total : Totals, pages : [1..MaxPages -> PageLists],
            absent : SUBSET Ids] :
        \A p \in 1..MaxPages : p * PageSize >= u.total + PageSize => u.pages[p] = <<>>}

\* a first run against a fixed upstream, on a table a previous crawl left and
\* a credential store that is empty or filled
InitRuns ==
    /\ pc = "main"
    /\ upstream \in Upstreams
    /\ runs = <<>>
    /\ table \in InitTables
    /\ table0 = table
    /\ NoRanking
    /\ committed = table
    /\ \/ COOKIE_FILE = Missing /\ XSRF_FILE = Missing
       \/ /\ COOKIE_FILE = save_cookie(cookie_header_of(StoredId), StoredToken)
          /\ XSRF_FILE = save_xsrf_token(StoredToken)
    /\ cookie = None
    /\ xsrf_token = None
    /\ obtained = <<None, None>>
    /\ call = NoCall
    /\ page = 1
    /\ total = 0
    /\ total_pages = 0
    /\ jobs = <<>>
    /\ idx = 1
    /\ details = "None"
    /\ acquisitions = [c \in Callers |-> 0]
    /\ searches = 0
    /\ visited = <<>>
    /\ commits = 0
    /\ log = <<>>
    /\ revoked = None
    /\ scenario = TRUE
    /\ browser = 0
    /\ logs = <<>>

\* the process has ended, by return or by exception, and main() is started
\* again: the files and the committed table are what the new process finds;
\* what the old connection had not committed is gone
Restart ==
    /\ pc \in {"done", "failed"}
    /\ Len(runs) + 1 < MaxRuns
    /\ runs' = Append(runs, pc)
    /\ pc' = "main"
    /\ table' = committed
    /\ cookie' = None
    /\ xsrf_token' = None
    /\ obtained' = <<None, None>>
    /\ call' = NoCall
    /\ page' = 1
    /\ total' = 0
    /\ total_pages' = 0
    /\ jobs' = <<>>
    /\ idx' = 1
    /\ details' = "None"
    /\ acquisitions' = [c \in Callers |-> 0]
    /\ searches' = 0
    /\ visited' = <<>>
    /\ commits' = 0
    /\ log' = <<>>
    /\ revoked' = None
    /\ scenario' = TRUE
    /\ UNCHANGED <<browserVars, rankVars, COOKIE_FILE, XSRF_FILE, committed,
                   upstream, table0>>

NextRuns == Next \/ Restart

SpecRuns == InitRuns /\ [][NextRuns]_vars

\* ------------------------------------------ the scoring stage (rank_jobs.py)
\* the ids the three tables are tried on
RankIds == Ids \cup {"j3"}

\* table job_matched: id is the PRIMARY KEY, match_score a number
MatchTables ==
    {{[id |-> i, match_score |-> f[i]] : i \in S} :
        S \in SUBSET RankIds, f \in [RankIds -> 1..MaxScore]}

\* table jobs as a crawl has left it
RankTables ==
    {{[id |-> i, title |-> "t1", details |-> json_dumps(TheDoc)] : i \in S} :
        S \in SUBSET RankIds}

\* what the model calls return for openai_score: 0 where the call or the
\* parsing of its answer fails (lines 118-120, 154-156), a score otherwise
OpenAiScores == {0, 7}

\* table jobs_data, by the two columns the loop reads or writes
DataTables ==
    {{[id |-> i, openai_score |-> 0] : i \in S} : S \in SUBSET RankIds}

\* FROM job_matched jm JOIN jobs j ON jm.id = j.id LEFT JOIN jobs_data jd
\* ON jm.id = jd.id WHERE jd.id IS NULL
NotReranked ==
    {jm \in job_matched :
        /\ \E j \in table : j.id = jm.id
        /\ ~\E jd \in jobs_data : jd.id = jm.id}

\* ORDER BY jm.match_score DESC: every order of the rows of S with the scores
\* descending (SQL leaves the order of rows of equal score open)
RECURSIVE OrderByScoreDesc(_)
OrderByScoreDesc(S) ==
    IF S = {} THEN {<<>>}
    ELSE UNION {{<<m>> \o q : q \in OrderByScoreDesc(S \ {m})} :
                  m \in {x \in S : \A y \in S : x.match_score >= y.match_score}}

\* LIMIT ? OFFSET ?
LimitOffset(q, limit, offset) ==
    SubSeq(q, offset + 1, IF offset + limit < Len(q) THEN offset + limit ELSE Len(q))

\* load_matched_jobs_paginated(conn, limit, offset): the lists the query may
\* return
load_matched_jobs_paginated(limit, offset) ==
    {LimitOffset(q, limit, offset) : q \in OrderByScoreDesc(NotReranked)}

\* rerank_with_openai: one entry for each job of the list, in its order, with
\* the openai_score given by scores
rerank_with_openai(l, scores) ==
    [k \in 1..Len(l) |-> [id |-> l[k].id, openai_score |-> scores[k]]]

\* INSERT INTO jobs_data ... ON CONFLICT(id) DO UPDATE SET openai_score = ...
InsertOnConflictUpdate(t, row) == {r \in t : r.id # row.id} \cup {row}

\* rank_jobs.main is at line 213: the three tables exist (setup_database),
\* the crawler is not running
InitRank ==
    /\ pc = "rerank"
    /\ table \in RankTables
    /\ committed = table
    /\ job_matched \in MatchTables
    /\ jobs_data \in DataTables
    /\ top_n_matches \in 1..MaxTopN
    /\ offset_matched = 0
    /\ paginated_jobs = <<>>
    /\ reranked_jobs = <<>>
    /\ COOKIE_FILE = Missing
    /\ XSRF_FILE = Missing
    /\ cookie = None
    /\ xsrf_token = None
    /\ obtained = <<None, None>>
    /\ call = NoCall
    /\ page = 1
    /\ total = 0
    /\ total_pages = 0
    /\ jobs = <<>>
    /\ idx = 1
    /\ details = "None"
    /\ acquisitions = [c \in Callers |-> 0]
    /\ searches = 0
    /\ visited = <<>>
    /\ commits = 0
    /\ log = <<>>
    /\ revoked = None
    /\ scenario = TRUE
    /\ browser = 0
    /\ logs = <<>>
    /\ upstream = NoUpstream
    /\ runs = <<>>
    /\ table0 = {}

crawlVars == <<pc, COOKIE_FILE, XSRF_FILE, cookie, xsrf_token, obtained, call,
               page, total, total_pages, jobs, idx, details, table, committed,
               acquisitions, searches, visited, commits, log, revoked,
               scenario, browser, logs, upstream, runs, table0>>

\* lines 214-221, "while True": query the next page of the jobs not yet
\* reranked; leave the loop when it is empty, else rerank its jobs
LoadMatchedJobsPaginated ==
    /\ pc = "rerank"
    /\ \E l \in load_matched_jobs_paginated(top_n_matches, offset_matched) :
         /\ paginated_jobs' = l
         /\ IF l = <<>>
            THEN /\ reranked_jobs' = <<>>
                 /\ pc' = "reranked"
            ELSE /\ \E scores \in [1..Len(l) -> OpenAiScores] :
                       reranked_jobs' = rerank_with_openai(l, scores)
                 /\ pc' = "insert"
    /\ UNCHANGED <<COOKIE_FILE, XSRF_FILE, cookie, xsrf_token, obtained, call,
                   page, total, total_pages, jobs, idx, details, table,
                   committed, acquisitions, searches, visited, commits, log,
                   revoked, scenario, browser, logs, upstream, runs, table0,
                   job_matched, jobs_data, top_n_matches, offset_matched>>

\* lines 223-236, "for job in reranked_jobs": insert or update the job's row
\* of jobs_data and commit
InsertJobsData ==
    /\ pc = "insert"
    /\ reranked_jobs # <<>>
    /\ jobs_data' = InsertOnConflictUpdate(jobs_data, Head(reranked_jobs))
    /\ reranked_jobs' = Tail(reranked_jobs)
    /\ UNCHANGED <<crawlVars, job_matched, top_n_matches, offset_matched,
                   paginated_jobs>>

\* line 238: offset_matched += config["top_n_matches"], and the loop again
AdvanceOffset ==
    /\ pc = "insert"
    /\ reranked_jobs = <<>>
    /\ offset_matched' = offset_matched + top_n_matches
    /\ pc' = "rerank"
    /\ UNCHANGED <<COOKIE_FILE, XSRF_FILE, cookie, xsrf_token, obtained, call,
                   page, total, total_pages, jobs, idx, details, table,
                   committed, acquisitions, searches, visited, commits, log,
                   revoked, scenario, browser, logs, upstream, runs, table0,
                   job_matched, jobs_data, top_n_matches, paginated_jobs,
                   reranked_jobs>>

NextRank ==
    \/ LoadMatchedJobsPaginated
    \/ InsertJobsData
    \/ AdvanceOffset

SpecRank == InitRank /\ [][NextRank]_vars

\* --------------------------------------------------- one run, with fairness
\* where main() stands when its next step is its own: the interpreter runs
\* the one thread whenever it is not waiting, and the browser calls come back
\* (Selenium's driver commands carry their own time-outs)
LocalPositions ==
    {"main", "reload", "browse", "paginate", "for_page", "for_job", "upsert",
     "commit", "sleep"}

\* "request" is where requests.post (line 158) or requests.get (line 177) is
\* under way; the run has ended at "done" (main returned) and at "failed" (an
\* exception left main)
Positions == LocalPositions \cup {"request", "done", "failed"}

\* the run takes its next step: at each of LocalPositions one of Main,
\* StartBrowser, ReloadCookie, ReloadFails, HandlePagination, ForPage, ForJob,
\* Upsert, Commit, Sleep is enabled, and each of them changes pc
Proceeds == pc \in LocalPositions /\ pc' \in Positions \ {pc}

\* requests.post and requests.get are called without timeout=: they return
\* when the server has answered, and nothing in the code makes that happen.
\* MakeApiRequest and GetJobDetails are therefore steps the run may wait for
\* for ever, not steps it is sure to take.
SpecLive == Init /\ [][Next]_vars /\ WF_pc(Proceeds)

\* ------------------------------------------------------------------- claims
\* the statuses the call in progress has received, in order
CallStatuses == [i \in 1..Len(call.resps) |-> call.resps[i].status]

\* the credential the call in progress sends
CallCredential == <<call.cookie, call.xsrf_token>>

\* C1: a search or detail call whose first answer is 403 and whose retry is
\* answered 200 returns what the retry's answer holds (the total of the first
\* search, the listings of a page's search, the document of a detail fetch),
\* and acquired a credential exactly once.
C1_RecoveryReturnsRetry ==
    (call.returned /\ CallStatuses = <<403, 200>>) =>
        /\ call.acq = 1
        /\ call.ret = 190 => total = call.resps[2].numberRecords
        /\ call.ret = 199 => jobs = call.resps[2].jvs
        /\ call.ret = 218 => details = call.resps[2].doc

\* C1 witness: a detail fetch has returned a document after 403 then 200
C1_Witness ==
    /\ call.returned
    /\ call.fn = "get_job_details"
    /\ CallStatuses = <<403, 200>>
    /\ details \in Docs

\* C2 (as claimed; violated): no search or detail call acquires more than once
\* or sends more than two requests, whatever the server answers.
C2_AtMostOneRetry == call.acq <= 1 /\ Len(call.resps) <= 2

\* C3 (as claimed; violated): once a credential has been acquired, every
\* request is sent with the most recently acquired one, and a call that
\* refreshed the credential leaves it with handle_pagination.
C3_LatestCredentialUsed ==
    /\ (pc = "request" /\ obtained # <<None, None>>) => CallCredential = obtained
    /\ (call.returned /\ call.acq > 0) => <<cookie, xsrf_token>> = obtained

\* C4 (as claimed; violated): when the server invalidates the credential once
\* (the invalidated cookie gets 403 from then on, every other cookie 200), a
\* run that completes has acquired exactly once after start-up.
C4_OneAcquisitionPerInvalidation ==
    (pc = "done" /\ scenario /\ revoked # None) => acquisitions["refresh"] = 1

\* 403 answers received so far in the run
Denials ==
    acquisitions["refresh"]
    + (IF pc \in {"reload", "browse"} /\ call.fn # "none" THEN 1 ELSE 0)

\* C5 (as claimed; violated): a completed run without a 403 over total_pages
\* pages has sent exactly total_pages search requests.
C5_SearchesEqualPages ==
    (pc = "done" /\ Denials = 0) => searches = total_pages

\* C5 (amended): a completed run without a 403 over total_pages pages has sent
\* exactly total_pages + 1 search requests: the first one, which learns the
\* total, and one for every page from 1 to total_pages.
C5_SearchesPagesPlusOne ==
    (pc = "done" /\ Denials = 0) => searches = total_pages + 1

\* C5 witness: a two-page run without a 403 has completed
C5_Witness == pc = "done" /\ Denials = 0 /\ total_pages = 2 /\ Len(visited) = 2

IsJobEvent(e) == e.ev \in {"detail", "upsert"}

\* the detail requests and upserts of the current page, in order
JobEvents == SelectSeq(log, IsJobEvent)

\* one detail request then one upsert for each listing of l, in l's order
Expected(l) ==
    [k \in 1..(2 * Len(l)) |->
        IF k % 2 = 1
        THEN Event("detail", (k + 1) \div 2, l[(k + 1) \div 2].id)
        ELSE Event("upsert", k \div 2, l[k \div 2].id)]

IsPrefix(a, b) == Len(a) <= Len(b) /\ a = SubSeq(b, 1, Len(a))

\* C6: while no 403 has occurred, the detail requests and upserts of a page
\* are, in order, one detail request then one upsert for each listing of the
\* page's search response, in the order of the response; when the page reaches
\* its commit every listing has had both.
C6_OneDetailThenOneUpsert ==
    Denials = 0 =>
        /\ IsPrefix(JobEvents, Expected(jobs))
        /\ pc \in {"commit", "sleep"} => JobEvents = Expected(jobs)

\* C6 witness: a page of two different listings is ready to commit, no 403
C6_Witness ==
    /\ pc = "commit"
    /\ Denials = 0
    /\ Len(jobs) = 2
    /\ jobs[1].id # jobs[2].id
    /\ Len(JobEvents) = 4

\* C7: a completed run made total_pages commits; the search request of page p
\* is sent when exactly p - 1 commits have been made; and the commit of a page
\* comes after the upsert of every listing of the page, is followed by no
\* upsert of that page, and makes the table durable as it then stands.
C7_OneCommitPerPage ==
    /\ pc = "done" => commits = total_pages
    /\ (call.fn = "make_api_request" /\ call.ret = 199 /\ pc \in {"request", "reload"})
          => commits = page - 1
    /\ pc \in {"for_job", "upsert", "commit"} => commits = page - 1
    /\ \A i \in 1..Len(log) :
          log[i].ev = "commit" =>
              /\ commits = log[i].n
              /\ committed = table
              /\ \A j \in 1..Len(jobs) :
                    \E k \in 1..(i - 1) : log[k] = Event("upsert", j, jobs[j].id)
              /\ \A k \in (i + 1)..Len(log) : log[k].ev # "upsert"

\* C7 witness: the second page, of two listings, has just been committed
C7_Witness == pc = "sleep" /\ page = 2 /\ commits = 2 /\ Len(jobs) = 2

\* ceil(a / b) for a >= 0, b > 0, by its definition
CeilDiv(a, b) == CHOOSE n \in 0..a : n * b >= a /\ (n = 0 \/ (n - 1) * b < a)

\* C8: total_pages is ceil(total / 50) for the total of the first response;
\* the loop enters the pages 1, 2, ... in increasing order, each once, and a
\* completed run has entered exactly ceil(total / 50) pages. The page count is
\* also compared with the ceiling, once, for every total up to one past the
\* last page boundary.
C8_PagesIsCeiling ==
    /\ pc = "main" =>
          \A t \in 0..(MaxPages * PageSize + 1) :
              total_pages_of(t) = CeilDiv(t, PageSize)
    /\ total_pages = CeilDiv(total, PageSize)
    /\ visited = [i \in 1..Len(visited) |-> i]
    /\ Len(visited) <= total_pages
    /\ pc = "done" => Len(visited) = CeilDiv(total, PageSize)

\* C8 witness: a run over total = 50, one page, has completed
C8_Witness == pc = "done" /\ total = 50 /\ visited = <<1>>

\* the last row upserted for id, if any, as a set
LastUpserted(id) ==
    LET at == {i \in 1..Len(log) : log[i].id = id}
    IN  IF at = {} THEN {}
        ELSE {log[CHOOSE i \in at : \A j \in at : j <= i]}

\* C9: after any sequence of upserts the table holds at most one row per id;
\* for an id that has been upserted that row is, in every column, the last
\* row upserted for it; the rows of the other ids are as they were; and
\* upserting a listing a second time leaves the table as the first left it.
C9_UpsertLastWriteWins ==
    pc = "table" =>
        /\ \A id \in Ids :
              LET rows == {r \in table : r.id = id}
              IN  /\ Cardinality(rows) <= 1
                  /\ rows = IF LastUpserted(id) = {}
                            THEN {r \in committed : r.id = id}
                            ELSE LastUpserted(id)
        /\ \A job \in Listings, d \in Docs \cup {"None"} :
              LET once == InsertOrReplace(table, job_data(job, d))
              IN  InsertOrReplace(once, job_data(job, d)) = once

\* C9 witness: j1, stored by a previous run, has been upserted twice with
\* different content
C9_Witness ==
    /\ pc = "table"
    /\ committed = {[id |-> "j1", title |-> "t0", details |-> "d0"]}
    /\ log = <<[id |-> "j1", title |-> "t1", details |-> "d1"],
               [id |-> "j1", title |-> "t1", details |-> "null"]>>

\* a credential both of whose parts are non-empty and free of surrounding
\* whitespace
WellFormed(c) ==
    /\ c[1] # <<>> /\ c[1] = strip(c[1])
    /\ c[2] # <<>> /\ c[2] = strip(c[2])

\* C10 (as claimed; violated): after saving a well-formed credential c, the
\* loaded cookie is c's session cookie and the loaded token is c's token.
C10_RoundTripExact ==
    (pc = "store_done" /\ WellFormed(obtained)) =>
        /\ cookie = obtained[1]
        /\ xsrf_token = obtained[2]


\* C11: a cookie file or token file that is missing, unreadable, corrupted or
\* empty loads as an absent value (None or the empty string); main then
\* acquires before any request is sent, exactly once; and a run that fails
\* before its first request fails in that acquisition, never in the load.
C11_LoadFailsSoft ==
    /\ (pc # "main" /\ acquisitions["main"] = 0) =>
          /\ COOKIE_FILE \in AbsentCookieFiles => cookie \in {None, <<>>}
          /\ XSRF_FILE \in AbsentXsrfFiles => xsrf_token \in {None, <<>>}
          /\ (COOKIE_FILE \in AbsentCookieFiles \/ XSRF_FILE \in AbsentXsrfFiles)
                => pc \in {"reload", "browse"} /\ searches = 0
    /\ acquisitions["main"] <= 1
    /\ pc \in {"paginate", "request"} /\ acquisitions["main"] = 1 =>
          <<cookie, xsrf_token>> # <<None, None>>
    /\ (pc = "failed" /\ searches = 0) => acquisitions["main"] = 1

\* C11 witness: the cookie file is corrupted, the token file is good, and
\* main is acquiring before any request
C11_Witness ==
    /\ pc = "browse"
    /\ COOKIE_FILE = <<"a">>
    /\ XSRF_FILE = save_xsrf_token(StoredToken)
    /\ cookie = None
    /\ searches = 0

\* C12 (as claimed; violated): when the save of a new credential stopped
\* between the two files, the next run does not accept (load both values
\* non-empty) the new cookie together with the token of the previous
\* credential.
C12_NoMixedCredential ==
    (pc = "store_restarted" /\ WellFormed(obtained)) =>
        ~ ( /\ ~Falsy(cookie)
            /\ ~Falsy(xsrf_token)
            /\ cookie = obtained[1] \o <<XsrfSeparator>> \o obtained[2]
            /\ xsrf_token = StoredToken
            /\ strip(obtained[2]) # StoredToken )

\* does some Set-Cookie header of the log hold the cookie name
NameOccurs(name) ==
    \E i \in 1..Len(logs) : contains(logs[i].set_cookie, name)

\* C13: when one entry of the log carries Set-Cookie with the session-id
\* cookie of value v1, another carries Set-Cookie with the XSRF cookie of
\* value v2 and no other entry holds either name, the extraction returns
\* ("EURES_JVSE_SESSIONID=" + v1, v2); when one of the two names occurs
\* nowhere in the log it raises; and it never returns a credential of which
\* a part is missing.
C13_ExtractsBothOrFails ==
    pc = "extracted" =>
        /\ \A v1, v2 \in Values :
              \A i, j \in 1..Len(logs) :
                  ( /\ i # j
                    /\ logs[i] = Entry("extra", SessionCookie(<<v1>>))
                    /\ logs[j] = Entry("extra", XsrfCookie(<<v2>>))
                    /\ \A k \in 1..Len(logs) \ {i, j} :
                          /\ ~contains(logs[k].set_cookie, SessionName)
                          /\ ~contains(logs[k].set_cookie, XsrfName) )
                  => obtained = <<cookie_header_of(<<v1>>), <<v2>>>>
        /\ (~NameOccurs(SessionName) \/ ~NameOccurs(XsrfName))
              => obtained = Raised
        /\ obtained # Raised =>
              /\ ~Falsy(obtained[2])
              /\ obtained[1] # cookie_header_of(None)
              /\ obtained[1] # cookie_header_of(<<>>)

\* C13 witness: the session-id cookie a and the XSRF cookie b, in two
\* entries, have been extracted
C13_Witness ==
    /\ pc = "extracted"
    /\ logs = <<Entry("extra", SessionCookie(<<"a">>)),
                Entry("extra", XsrfCookie(<<"b">>))>>
    /\ obtained = <<<<SessionName, "a">>, <<"b">>>>

\* the Set-Cookie lines of the log's responses, in log order
RECURSIVE LinesOf(_)
LinesOf(l) ==
    IF l = <<>> THEN <<>>
    ELSE (IF Head(l).message = "extra" /\ Head(l).set_cookie # <<>>
          THEN split_lines(<<>>, Head(l).set_cookie)
          ELSE <<>>)
         \o LinesOf(Tail(l))

\* every line that holds a cookie name holds a value for it
Clean(lines) ==
    \A i \in 1..Len(lines) :
        \A name \in {SessionName, XsrfName} :
            contains(lines[i], name) => matches(lines[i], name) # {}

\* the value of the first line, in log order, that holds the name
FirstValue(lines, name) ==
    LET at == {i \in 1..Len(lines) : contains(lines[i], name)}
        first == CHOOSE i \in at : \A j \in at : i <= j
    IN  search_group(lines[first], name)

\* C14 (as claimed; violated): for a log in which each of the two names occurs
\* (always with a value), the extraction returns the value of the first
\* occurrence of the session-id cookie and the value of the first occurrence
\* of the XSRF cookie.
C14_FirstMatchWins ==
    ( /\ pc = "extracted"
      /\ Clean(LinesOf(logs))
      /\ NameOccurs(SessionName)
      /\ NameOccurs(XsrfName) )
    => obtained = <<cookie_header_of(FirstValue(LinesOf(logs), SessionName)),
                    FirstValue(LinesOf(logs), XsrfName)>>

\* C15: when the extraction of an acquisition raises, at start-up or in the
\* recovery of a search or detail call, the run fails at once: no file, no
\* request, no upsert and no commit follows, and a failed run does nothing
\* more.
C15_AcquisitionFailureIsFatal ==
    [][ /\ (pc = "browse" /\ extract_cookies_from_logs(logs) = Raised) =>
              /\ pc' = "failed"
              /\ UNCHANGED <<COOKIE_FILE, XSRF_FILE, cookie, xsrf_token,
                             searches, log, table, committed, commits>>
        /\ pc = "failed" =>
              /\ pc' = "failed"
              /\ UNCHANGED <<searches, log, table, committed, commits>> ]_vars

\* C15 witness: the acquisition that follows the 403 of a detail request has
\* failed and ended the run
C15_Witness ==
    /\ pc = "failed"
    /\ call.fn = "get_job_details"
    /\ call.resps[Len(call.resps)].status = 403
    /\ acquisitions["refresh"] = 1
    /\ obtained = <<None, None>>

\* C16: at most one Chrome instance is ever open, one is open exactly while
\* obtain_cookies_via_selenium reads the page, and none is open anywhere
\* else: not in the retry after a refresh, not after a failed extraction.
C16_BrowserReleased ==
    /\ browser \in {0, 1}
    /\ browser = 1 <=> pc = "browse"

\* C16 witness: a refresh has returned and its retry is about to be sent
C16_Witness ==
    /\ pc = "request"
    /\ call.acq = 1
    /\ Len(call.resps) = 1
    /\ browser = 0

\* C17: when the detail call of a listing has returned after a last answer of
\* status 400 or more, the next step upserts the listing with the fields of
\* the search page and details "null", replacing any row of that id, and goes
\* on to the next listing of the same page.
C17_DetailFailureDegrades ==
    [][ ( /\ pc = "upsert"
          /\ call.resps[Len(call.resps)].status >= 400 ) =>
            /\ table' = {r \in table : r.id # jobs[idx].id}
                        \cup {[id |-> jobs[idx].id, title |-> jobs[idx].title,
                               details |-> "null"]}
            /\ pc' = "for_job"
            /\ idx' = idx + 1
            /\ UNCHANGED <<jobs, page, total_pages>> ]_vars

\* C17 witness: of a page of two listings the first has been upserted with
\* details "null" and the second is next
C17_Witness ==
    /\ pc = "for_job"
    /\ Len(jobs) = 2
    /\ idx = 2
    /\ [id |-> jobs[1].id, title |-> jobs[1].title, details |-> "null"] \in table

\* C18 (as claimed; violated): a detail request answered 200 with a body that
\* is not JSON does not end the run.
C18_MalformedDetailIsAbsent ==
    ( /\ call.fn = "get_job_details"
      /\ Len(call.resps) > 0
      /\ call.resps[Len(call.resps)].status = 200
      /\ ~call.resps[Len(call.resps)].json )
    => pc # "failed"

\* the listings of the first n pages of upstream u, in crawl order
RECURSIVE CrawlOf(_, _)
CrawlOf(u, n) == IF n = 0 THEN <<>> ELSE CrawlOf(u, n - 1) \o u.pages[n]

\* the table one uninterrupted crawl of u makes of t: every listing of u is
\* there as u serves it last, with details "null" where the detail endpoint
\* fails, and the rows of the other ids are as in t
CrawledTable(t, u) ==
    LET crawl == CrawlOf(u, CeilDiv(u.total, PageSize))
        last(id) == CHOOSE i \in 1..Len(crawl) :
                        /\ crawl[i].id = id
                        /\ \A j \in (i + 1)..Len(crawl) : crawl[j].id # id
        served == {crawl[i].id : i \in 1..Len(crawl)}
    IN  {r \in t : r.id \notin served}
        \cup {[id |-> id, title |-> crawl[last(id)].title,
               details |-> IF id \in u.absent THEN "null" ELSE TheDoc] :
              id \in served}

\* C19: against an unchanged upstream, every run that completes, be it the
\* first, one that follows a completed run or one that follows a run that
\* failed part-way, leaves the same jobs table, committed: the one a single
\* uninterrupted run makes of the table found before the first run.
C19_RerunIdempotent ==
    pc = "done" =>
        /\ committed = CrawledTable(table0, upstream)
        /\ table = committed

\* C19 witness: a second run over two pages has completed after a completed
\* first run, on a table the crawl changed
C19_Witness ==
    /\ pc = "done"
    /\ runs = <<"done">>
    /\ total_pages = 2
    /\ committed # table0
    /\ Cardinality(committed) = 2

\* C20: no step of any run, completed or failed, and no start of a new run
\* removes a listing id from the committed jobs table.
C20_NeverDeletes ==
    [][{r.id : r \in committed} \subseteq {r.id : r \in committed'}]_vars

\* C20 witness: after a failed and then a completed run the table still holds
\* the listing j1 of an earlier crawl, which the upstream no longer serves,
\* next to the listing j2 of this crawl
C20_Witness ==
    /\ pc = "done"
    /\ runs = <<"failed">>
    /\ table0 = {[id |-> "j1", title |-> "t0", details |-> "d0"]}
    /\ committed = table0 \cup {[id |-> "j2", title |-> "t1", details |-> TheDoc]}

\* C21: every run eventually terminates, by completing all pages or by
\* failing, whatever the upstream server does.
C21_RunTerminates == <>(pc \in {"done", "failed"})

\* C22: a search response whose status is neither 403 nor 2xx makes the run
\* fail: the run never returns from main after make_api_request has returned
\* the body of such a response as a search page.
C22_ErrorStatusFailsRun ==
    [][(/\ call.fn = "make_api_request"
        /\ call.returned
        /\ ~ok(ReturnedResponse(call.resps)))
       => pc' # "done"]_vars

\* C23: page-level atomicity under failure. The table on disk is written only
\* by the commit that ends a page, after every listing of the page has been
\* upserted; a step that fails the run leaves it as the commit of the page
\* before left it (as it was found, when no page has ended), so that what
\* the failing page has upserted is only in the connection's view; and every
\* row on disk has all its columns.
C23_PageAtomic ==
    [][/\ committed' # committed
            => pc = "commit" /\ ~in_jobs(idx, jobs) /\ committed' = table
       /\ pc' = "failed"
            => /\ committed' = committed
               /\ commits' = IF visited' = <<>> THEN 0 ELSE Len(visited') - 1
               /\ \A r \in table' \ committed' :
                     \E i \in 1..Len(log') :
                         log'[i].ev = "upsert" /\ log'[i].id = r.id
       /\ committed' \subseteq Rows]_vars

\* the run fails in page 2 after an upsert of page 2, page 1 being committed
C23_Witness ==
    /\ pc = "failed"
    /\ visited = <<1, 2>>
    /\ commits = 1
    /\ table # committed

\* the place of the last search request in the history l, 0 when it has none
LastSearch(l) ==
    IF \E i \in 1..Len(l) : l[i].ev = "search"
    THEN CHOOSE i \in 1..Len(l) :
             /\ l[i].ev = "search"
             /\ \A j \in (i + 1)..Len(l) : l[j].ev # "search"
    ELSE 0

\* the throttle delays taken since the last search request
DelaysSince(l) == {i \in (LastSearch(l) + 1)..Len(l) : l[i].ev = "sleep"}

\* the loop is about to send the search request of `page` (line 199): the
\* history holds what happened since the loop entered the page before, or
\* since the run began
AboutToSearch == pc = "for_page" /\ in_range(page, total_pages)

\* since the search request of the page before there has been exactly one
\* delay, and it came right after the commit of that page
OneDelayAfterCommit ==
    /\ Cardinality(DelaysSince(log)) = 1
    /\ Len(log) >= 2
    /\ log[Len(log)] = Event("sleep", page - 1, "-")
    /\ log[Len(log) - 1] = Event("commit", page - 1, "-")

\* a search request sent again within one call follows an acquisition
RetryFollowsAcquisition ==
    (pc = "request" /\ call.fn = "make_api_request" /\ call.resps # <<>>)
        => call.acq = Len(call.resps)

\* C24 as claimed: between the search requests of two consecutive pages there
\* is exactly one throttle delay, taken after the commit of the earlier page,
\* and no two search requests of the run are sent without a delay or an
\* acquisition between them.
C24_AlwaysThrottled ==
    /\ (AboutToSearch /\ page > 1) => OneDelayAfterCommit
    /\ AboutToSearch => DelaysSince(log) # {}
    /\ RetryFollowsAcquisition

\* C24 as amended: the same, except that the request of page 1 follows the
\* first request of the run (the one that learns the total) with neither a
\* delay nor an acquisition between them.
C24_ThrottledBetweenPages ==
    /\ (AboutToSearch /\ page > 1) => OneDelayAfterCommit
    /\ (AboutToSearch /\ page = 1) => DelaysSince(log) = {}
    /\ RetryFollowsAcquisition

\* the loop is about to request page 2, and a detail request of page 1 was
\* denied and made again
C24_Witness ==
    /\ AboutToSearch
    /\ page = 2
    /\ acquisitions["refresh"] > 0
    /\ \E i \in 1..Len(log) : log[i].ev = "detail"

\* a credential part that is there: a string, and not the empty one
Present(s) == s \notin {None, Missing, Unreadable, ParseError} /\ s # <<>>

\* C25: no search or detail request is sent while the credential is absent:
\* at every request the cookie and the XSRF token of the call are present
\* and non-empty, whatever the two credential files held at the start.
C25_CredentialPresent ==
    pc = "request" => Present(call.cookie) /\ Present(call.xsrf_token)

\* a detail request about to be sent with the credential main acquired,
\* the store having held none
C25_Witness ==
    /\ pc = "request"
    /\ call.fn = "get_job_details"
    /\ acquisitions["main"] = 1
    /\ call.cookie = obtained[1]
    /\ call.xsrf_token = obtained[2]

\* the run has ended in reload_cookie: in main's acquisition, or in the one
\* that followed a 403
FailedAcquisition ==
    /\ pc = "failed"
    /\ \/ call.fn = "none"
       \/ ReturnedResponse(call.resps).status = 403

\* C26: a failed acquisition leaves the credential store unchanged. When
\* reload_cookie has failed the two files hold what they held before it was
\* called: what the last successful acquisition of the run saved or, where
\* there was none, files from which the next run loads what this run loaded.
C26_FailedAcquisitionKeepsStore ==
    FailedAcquisition =>
        IF obtained = <<None, None>>
        THEN /\ load_stored_cookie_of(COOKIE_FILE) = cookie
             /\ load_xsrf_token_of(XSRF_FILE) = xsrf_token
        ELSE /\ COOKIE_FILE = save_cookie(obtained[1], obtained[2])
             /\ XSRF_FILE = save_xsrf_token(obtained[2])

\* the stored credential was loaded and denied, and the acquisition that
\* followed has failed
C26_Witness ==
    /\ FailedAcquisition
    /\ call.fn = "make_api_request"
    /\ obtained = <<None, None>>
    /\ cookie = load_stored_cookie_of(save_cookie(cookie_header_of(StoredId), StoredToken))
    /\ xsrf_token = StoredToken

\* C27: reranking coverage. When the rerank loop has ended, every job that
\* has a row in job_matched and a row in jobs has a row in jobs_data.
C27_RerankCoversAll ==
    pc = "reranked" =>
        \A jm \in job_matched :
            (\E j \in table : j.id = jm.id) => \E jd \in jobs_data : jd.id = jm.id

====
